---- MODULE Spec2Model ----
(***************************************************************************)
(* Model of the betting part of the Betfair API-NG Go client               *)
(* (src/betting.go): the request envelope Params and its JSON encoding,    *)
(* Params.SetProjections, the seven public List* operations of Session and *)
(* the shared helper doBettingRequest, and the JSON encoding and decoding  *)
(* of the result structs.                                                  *)
(*                                                                         *)
(* Two specifications share the module.  Spec is the session: goroutines   *)
(* calling the public operations concurrently on one Session.  SpecCodec   *)
(* applies the pure functions (encoding, decoding, SetProjections) to      *)
(* inputs drawn from bounded sets.                                         *)
(***************************************************************************)
EXTENDS Integers, Sequences, FiniteSets, TLC

VARIABLES
    config,     \* s.config: the session configuration ([Locale |-> string])
    heap,       \* caller-owned objects the operations receive by pointer
    pc,         \* per goroutine: position inside the public operation
    op,         \* per goroutine: the operation being run (its remote method)
    args,       \* per goroutine: the caller's arguments of the current call
    params,     \* the Params envelopes allocated by new(Params), by address
    err,        \* per goroutine: doBettingRequest's local err / its return
    data,       \* per goroutine: the bytes doRequest returned
    results,    \* per goroutine: the operation's local `results`
    ret,        \* per goroutine: what the operation returned to its caller
    wire,       \* per goroutine: the doRequest calls of the current invocation
    trace,      \* per goroutine: the stages the current invocation went through
    body,       \* per goroutine: the bytes json.Marshal returned
    ncalls,     \* invocations started so far (all goroutines)
    uFn,        \* SpecCodec: the function applied
    uIn,        \* SpecCodec: its input
    uOut        \* SpecCodec: its output (the empty sequence until applied)

sessVars == <<config, heap, pc, op, args, params, err, data, results, ret,
              wire, trace, body, ncalls>>
codecVars == <<uFn, uIn, uOut>>
vars == <<config, heap, pc, op, args, params, err, data, results, ret,
          wire, trace, body, ncalls, uFn, uIn, uOut>>

(***************************************************************************)
(* Bounds of the model.                                                    *)
(***************************************************************************)
\* invocations of public operations in one behaviour (all goroutines)
MaxCalls == 2

(***************************************************************************)
(* Enumerated constants, betting.go lines 65-133.  Only the first constant *)
(* of each block carries the enumeration's type; the others are untyped    *)
(* string constants with the value written.                                *)
(***************************************************************************)
SideBack == "BACK"
SideLay == "LAY"

OrderProjectionAll == "ALL"
OrderProjectionExecutableSlip == "EXECUTION_COMPLETE"
OrderProjectionExecutable == "EXECUTABLE"
OrderProjectionExecutionComplete == "EXECUTION_COMPLETE"

OrderStatusExecutionComplete == OrderProjectionExecutionComplete
OrderStatusExecutable == OrderProjectionExecutable

MatchProjectionNoRollup == "NO_ROLLUP"
MatchProjectionRolledUpByPrice == "ROLLED_UP_BY_PRICE"
MatchProjectionRolledUpByAvgPrice == "ROLLED_UP_BY_AVG_PRICE"

MarketProjectionCompetition == "COMPETITION"
MarketProjectionEvent == "EVENT"
MarketProjectionEventType == "EVENT_TYPE"
MarketProjectionMarketStartTime == "MARKET_START_TIME"
MarketProjectionMarketDescription == "MARKET_DESCRIPTION"
MarketProjectionRunnerDescription == "RUNNER_DESCRIPTION"
MarketProjectionRunnerMetadata == "RUNNER_METADATA"

PriceDataSPAvailable == "SP_AVAILABLE"
PriceDataSPTraded == "SP_TRADED"
PriceDataEXBestOffers == "EX_BEST_OFFERS"
PriceDataEXAllOffers == "EX_ALL_OFFERS"
PriceDataEXTraded == "EX_TRADED"

RunnerStatusActive == "ACTIVE"
RunnerStatusWinner == "WINNER"
RunnerStatusLoser == "LOSER"
RunnerStatusRemovedVacant == "REMOVED_VACANT"
RunnerStatusRemoved == "REMOVED"
RunnerStatusHidden == "HIDDEN"

PersistenceTypeLapse == "LAPSE"
PersistenceTypePersist == "PERSIST"
PersistenceTypeMarketOnClose == "MARKET_ON_CLOSE"

OrderTypeLimit == "LIMIT"
OrderTypeLimitOnClose == "LIMIT_ON_CLOSE"
OrderTypeMarketOnClose == "MARKET_ON_CLOSE"

\* The constants of each enumeration, in declaration order.
EnumConsts ==
    [SideVal |-> <<SideBack, SideLay>>,
     OrderProjVal |-> <<OrderProjectionAll, OrderProjectionExecutable,
                        OrderProjectionExecutionComplete>>,
     OrderStatusVal |-> <<OrderStatusExecutionComplete, OrderStatusExecutable>>,
     MatchProjVal |-> <<MatchProjectionNoRollup, MatchProjectionRolledUpByPrice,
                        MatchProjectionRolledUpByAvgPrice>>,
     MarketProjVal |-> <<MarketProjectionCompetition, MarketProjectionEvent,
                         MarketProjectionEventType,
                         MarketProjectionMarketStartTime,
                         MarketProjectionMarketDescription,
                         MarketProjectionRunnerDescription,
                         MarketProjectionRunnerMetadata>>,
     PriceDataVal |-> <<PriceDataSPAvailable, PriceDataSPTraded,
                        PriceDataEXBestOffers, PriceDataEXAllOffers,
                        PriceDataEXTraded>>,
     RunnerStatusVal |-> <<RunnerStatusActive, RunnerStatusWinner,
                           RunnerStatusLoser, RunnerStatusRemovedVacant,
                           RunnerStatusRemoved, RunnerStatusHidden>>,
     PersistenceTypeVal |-> <<PersistenceTypeLapse, PersistenceTypePersist,
                              PersistenceTypeMarketOnClose>>,
     OrderTypeVal |-> <<OrderTypeLimit, OrderTypeLimitOnClose,
                        OrderTypeMarketOnClose>>]

EnumNames == DOMAIN EnumConsts

(***************************************************************************)
(* JSON documents.  A JSON value is a pair <<kind, content>>; an object's  *)
(* content is a function from its keys to JSON values, an array's content  *)
(* a sequence of JSON values.  Numbers are integers here.                  *)
(***************************************************************************)
JStr(s) == <<"str", s>>
JNum(n) == <<"num", n>>
JArr(s) == <<"arr", s>>
JObj(f) == <<"obj", f>>

Keys(j) == DOMAIN j[2]

\* time.Time's zero value as encoding/json writes it (RFC 3339).
ZeroTime == "0001-01-01T00:00:00Z"

(***************************************************************************)
(* The struct types, as encoding/json sees them: per field its Go name,    *)
(* the name in its json tag ("" when untagged), whether the tag says       *)
(* omitempty, its kind, and for struct, pointer and slice kinds the        *)
(* element type.  A pointer is an address into heap, 0 being nil; a slice  *)
(* is a sequence, the empty sequence standing for both nil and empty       *)
(* slices (encoding/json looks only at the length).                        *)
(***************************************************************************)
Fld(go, tag, omit, kind, elem) ==
    [go |-> go, tag |-> tag, omitempty |-> omit, kind |-> kind, elem |-> elem]

MarketFilterFields ==
    <<Fld("TextQuery", "textQuery", TRUE, "string", ""),
      Fld("ExchangeIds", "exchangeIds", TRUE, "slice", "string"),
      Fld("EventTypeIds", "eventTypeIds", TRUE, "slice", "string"),
      Fld("EventIds", "eventIds", TRUE, "slice", "string"),
      Fld("CompetitionIds", "competitionIds", TRUE, "slice", "string"),
      Fld("MarketCountries", "marketCountries", TRUE, "slice", "string"),
      Fld("MarketIds", "marketIds", TRUE, "slice", "string"),
      Fld("MarketTypeCodes", "marketTypeCodes", TRUE, "slice", "string")>>

PriceProjectionFields ==
    <<Fld("PriceData", "priceData", TRUE, "slice", "string")>>

ParamsFieldsNoOmit ==
    <<Fld("MarketFilter", "filter", FALSE, "ptr", "MarketFilter"),
      Fld("MarketIds", "marketIds", FALSE, "slice", "string"),
      Fld("PriceProjection", "priceProjection", FALSE, "ptr", "PriceProjection"),
      Fld("MarketProjection", "marketProjection", FALSE, "slice", "string"),
      Fld("OrderProjection", "orderProjection", FALSE, "string", ""),
      Fld("MatchProjection", "matchProjection", FALSE, "string", ""),
      Fld("MaxResults", "maxResults", FALSE, "int", ""),
      Fld("Locale", "locale", FALSE, "string", "")>>

ParamsFields ==
    <<Fld("MarketFilter", "filter", TRUE, "ptr", "MarketFilter"),
      Fld("MarketIds", "marketIds", TRUE, "slice", "string"),
      Fld("PriceProjection", "priceProjection", TRUE, "ptr", "PriceProjection"),
      Fld("MarketProjection", "marketProjection", TRUE, "slice", "string"),
      Fld("OrderProjection", "orderProjection", TRUE, "string", ""),
      Fld("MatchProjection", "matchProjection", TRUE, "string", ""),
      Fld("MaxResults", "maxResults", TRUE, "int", ""),
      Fld("Locale", "locale", TRUE, "string", "")>>

CountryCodeResultFields ==
    <<Fld("CountryCode", "", FALSE, "string", ""),
      Fld("MarketCount", "", FALSE, "int", "")>>

MarketTypeResultFields ==
    <<Fld("MarketType", "", FALSE, "string", ""),
      Fld("MarketCount", "", FALSE, "int", "")>>

PriceSizeFields ==
    <<Fld("Price", "price", TRUE, "float", ""),
      Fld("Size", "size", TRUE, "float", "")>>

StartingPricesFields ==
    <<Fld("NearPrice", "nearPrice", TRUE, "float", ""),
      Fld("FarPrice", "farPrice", TRUE, "float", ""),
      Fld("BackStakeTaken", "backStakeTaken", TRUE, "slice", "PriceSize"),
      Fld("LayLiabilityTaken", "layLiabilityTaken", TRUE, "slice", "PriceSize"),
      Fld("ActualSP", "actualSP", TRUE, "float", "")>>

ExchangePricesFields ==
    <<Fld("AvailableToBack", "availableToBack", TRUE, "slice", "PriceSize"),
      Fld("AvailableToLay", "availableToLay", TRUE, "slice", "PriceSize"),
      Fld("TradedVolume", "TradedVolume", TRUE, "slice", "PriceSize")>>

MatchFields ==
    <<Fld("BetID", "betId", TRUE, "string", ""),
      Fld("MatchDate", "matchDate", TRUE, "time", ""),
      Fld("MatchID", "matchId", TRUE, "string", ""),
      Fld("Price", "price", FALSE, "string", ""),
      Fld("Side", "side", FALSE, "string", ""),
      Fld("Size", "size", FALSE, "float", "")>>

\* Orders is left out: Order holds no omit-on-empty field and no value
\* below carries orders.
RunnerFields ==
    <<Fld("SelectionID", "selectionId", TRUE, "uint", ""),
      Fld("Handicap", "handicap", TRUE, "float", ""),
      Fld("Status", "status", TRUE, "string", ""),
      Fld("AdjustmentFactor", "adjustmentFactor", TRUE, "float", ""),
      Fld("LastPriceTraded", "lastPriceTraded", TRUE, "float", ""),
      Fld("TotalMatched", "totalMatched", TRUE, "float", ""),
      Fld("RemovalDate", "removalDate", TRUE, "time", ""),
      Fld("StartingPrices", "sp", TRUE, "struct", "StartingPrices"),
      Fld("ExchangePrices", "ex", TRUE, "struct", "ExchangePrices"),
      Fld("Matches", "matches", TRUE, "slice", "Match")>>

\* ProjectionParams is never encoded; its fields carry no tags.
ProjectionParamsFields ==
    <<Fld("MarketProjection", "", FALSE, "slice", "string"),
      Fld("PriceProjection", "", FALSE, "ptr", "PriceProjection"),
      Fld("OrderProjection", "", FALSE, "string", ""),
      Fld("MatchProjection", "", FALSE, "string", "")>>

Schemas ==
    [MarketFilter |-> MarketFilterFields,
     ProjectionParams |-> ProjectionParamsFields,
     PriceProjection |-> PriceProjectionFields,
     Params |-> ParamsFields,
     CountryCodeResult |-> CountryCodeResultFields,
     MarketTypeResult |-> MarketTypeResultFields,
     PriceSize |-> PriceSizeFields,
     StartingPrices |-> StartingPricesFields,
     ExchangePrices |-> ExchangePricesFields,
     Match |-> MatchFields,
     Runner |-> RunnerFields]

\* The key a field is written under: its tag name, else its Go name.
WireName(f) == IF f.tag = "" THEN f.go ELSE f.tag

RECURSIVE ZeroValue(_)
\* The zero value of a struct type.
ZeroValue(type) ==
    LET fs == Schemas[type]
        zero(f) ==
            CASE f.kind = "string" -> ""
              [] f.kind \in {"int", "uint", "float", "ptr"} -> 0
              [] f.kind = "time" -> ZeroTime
              [] f.kind = "slice" -> <<>>
              [] f.kind = "struct" -> ZeroValue(f.elem)
    IN  [g \in {fs[i].go : i \in DOMAIN fs} |->
            zero(fs[CHOOSE i \in DOMAIN fs : fs[i].go = g])]

(***************************************************************************)
(* json.Marshal on a struct value (encoding/json, as called at             *)
(* betting.go line 439).                                                   *)
(***************************************************************************)
\* What omitempty takes for empty: false, 0, a nil pointer, and an array,
\* slice, map or string of length zero.  A struct value, time.Time
\* included, is never empty.
IsEmptyValue(f, v) ==
    CASE f.kind = "string" -> v = ""
      [] f.kind \in {"int", "uint", "float", "ptr"} -> v = 0
      [] f.kind = "slice" -> Len(v) = 0
      [] f.kind \in {"struct", "time"} -> FALSE

JNull == <<"null", "">>

\* A Go string (an enumerated constant included) is written as the JSON
\* string of the same characters.
EncodeString(s) == JStr(s)

RECURSIVE MarshalStruct(_, _, _)
\* The object json.Marshal writes for struct value val of the given type;
\* h is the heap its pointers point into.
MarshalStruct(type, val, h) ==
    LET fs == Schemas[type]
        present == {i \in DOMAIN fs :
                      ~(fs[i].omitempty /\ IsEmptyValue(fs[i], val[fs[i].go]))}
        elemOf(f, e) ==
            IF f.elem = "string" THEN EncodeString(e)
            ELSE JObj(MarshalStruct(f.elem, e, h))
        enc(f, v) ==
            CASE f.kind \in {"string", "time"} -> EncodeString(v)
              [] f.kind \in {"int", "uint", "float"} -> JNum(v)
              [] f.kind = "slice" -> JArr([i \in DOMAIN v |-> elemOf(f, v[i])])
              [] f.kind = "struct" -> JObj(MarshalStruct(f.elem, v, h))
              [] f.kind = "ptr" ->
                    IF v = 0 THEN JNull
                    ELSE JObj(MarshalStruct(f.elem, h[v], h))
    IN  [k \in {WireName(fs[i]) : i \in present} |->
            LET i == CHOOSE j \in present : WireName(fs[j]) = k
            IN  enc(fs[i], val[fs[i].go])]

\* json.Marshal(params), betting.go line 439.
MarshalParams(p, h) == JObj(MarshalStruct("Params", p, h))

(***************************************************************************)
(* json.Unmarshal into a struct value (encoding/json, as called at         *)
(* betting.go line 450).  A key of the document is matched to the field    *)
(* whose wire name equals it, else to one that equals it under case        *)
(* folding; unknown keys are skipped; a value of the wrong JSON kind       *)
(* leaves the field alone and makes Unmarshal return an error.             *)
(***************************************************************************)
\* Case folding of the names that occur in the schemas and documents
\* below (names without capitals fold to themselves).
FoldTable ==
    [CountryCode |-> "countrycode", countryCode |-> "countrycode",
     MarketCount |-> "marketcount", marketCount |-> "marketcount",
     MarketType |-> "markettype", marketType |-> "markettype",
     betId |-> "betid", matchDate |-> "matchdate", matchId |-> "matchid",
     selectionId |-> "selectionid",
     adjustmentFactor |-> "adjustmentfactor",
     lastPriceTraded |-> "lastpricetraded",
     totalMatched |-> "totalmatched", removalDate |-> "removaldate",
     nearPrice |-> "nearprice", farPrice |-> "farprice",
     backStakeTaken |-> "backstaketaken",
     layLiabilityTaken |-> "layliabilitytaken", actualSP |-> "actualsp",
     availableToBack |-> "availabletoback",
     availableToLay |-> "availabletolay",
     TradedVolume |-> "tradedvolume", tradedVolume |-> "tradedvolume"]

Fold(s) == IF s \in DOMAIN FoldTable THEN FoldTable[s] ELSE s

\* The key of document content d that decodes into field f, "" when none.
KeyFor(f, d) ==
    IF WireName(f) \in DOMAIN d THEN WireName(f)
    ELSE IF \E k \in DOMAIN d : Fold(k) = Fold(WireName(f))
         THEN CHOOSE k \in DOMAIN d : Fold(k) = Fold(WireName(f))
         ELSE ""

RECURSIVE DecodeStruct(_, _)
\* Decoding object content d into a zero struct of the given type:
\* [ok |-> no value had the wrong kind, val |-> the struct afterwards].
DecodeStruct(type, d) ==
    LET fs == Schemas[type]
        zero == ZeroValue(type)
        fieldOf(g) == fs[CHOOSE i \in DOMAIN fs : fs[i].go = g]
        elemOk(f, e) ==
            IF f.elem = "string" THEN e[1] = "str"
            ELSE e[1] = "obj" /\ DecodeStruct(f.elem, e[2]).ok
        elemVal(f, e) ==
            IF f.elem = "string" THEN e[2] ELSE DecodeStruct(f.elem, e[2]).val
        fits(f, j) ==
            CASE j[1] = "null" -> TRUE
              [] f.kind \in {"string", "time"} -> j[1] = "str"
              [] f.kind \in {"int", "float"} -> j[1] = "num"
              [] f.kind = "uint" -> j[1] = "num" /\ j[2] >= 0
              [] f.kind = "struct" ->
                    j[1] = "obj" /\ DecodeStruct(f.elem, j[2]).ok
              [] f.kind = "slice" ->
                    j[1] = "arr" /\ \A i \in DOMAIN j[2] : elemOk(f, j[2][i])
              [] f.kind = "ptr" -> FALSE
        value(f, j) ==
            CASE f.kind \in {"string", "time", "int", "uint", "float"} -> j[2]
              [] f.kind = "struct" -> DecodeStruct(f.elem, j[2]).val
              [] f.kind = "slice" ->
                    [i \in DOMAIN j[2] |-> elemVal(f, j[2][i])]
        hit(f) == KeyFor(f, d) # ""
    IN  [ok |-> \A i \in DOMAIN fs :
                   hit(fs[i]) => fits(fs[i], d[KeyFor(fs[i], d)]),
         val |-> [g \in DOMAIN zero |->
                    LET f == fieldOf(g)
                    IN  IF hit(f) /\ d[KeyFor(f, d)][1] # "null"
                           /\ fits(f, d[KeyFor(f, d)])
                        THEN value(f, d[KeyFor(f, d)])
                        ELSE zero[g]]]

(***************************************************************************)
(* Params.SetProjections, betting.go lines 175-180.  a is the address of   *)
(* the ProjectionParams; dereferencing the nil pointer at line 176 panics  *)
(* before anything is written.  The result holds the envelope and the heap *)
(* as the method leaves them.                                              *)
(***************************************************************************)
\* A slip that appends to the envelope's market projection instead of
\* replacing it.
SetProjectionsAppend(p, a, h) ==
    IF a = 0 THEN [panic |-> TRUE, p |-> p, h |-> h]
    ELSE [panic |-> FALSE,
          p |-> [p EXCEPT !.PriceProjection = h[a].PriceProjection,
                          !.MarketProjection = @ \o h[a].MarketProjection,
                          !.OrderProjection = h[a].OrderProjection,
                          !.MatchProjection = h[a].MatchProjection],
          h |-> h]

\* A nil check added in front: a nil argument leaves the envelope as it is
\* and the method returns normally.
SetProjectionsNilGuard(p, a, h) ==
    IF a = 0 THEN [panic |-> FALSE, p |-> p, h |-> h]
    ELSE [panic |-> FALSE,
          p |-> [p EXCEPT !.PriceProjection = h[a].PriceProjection,
                          !.MarketProjection = h[a].MarketProjection,
                          !.OrderProjection = h[a].OrderProjection,
                          !.MatchProjection = h[a].MatchProjection],
          h |-> h]

SetProjections(p, a, h) ==
    IF a = 0 THEN [panic |-> TRUE, p |-> p, h |-> h]
    ELSE [panic |-> FALSE,
          p |-> [p EXCEPT !.PriceProjection = h[a].PriceProjection,
                          !.MarketProjection = h[a].MarketProjection,
                          !.OrderProjection = h[a].OrderProjection,
                          !.MatchProjection = h[a].MatchProjection],
          h |-> h]

(***************************************************************************)
(* Inputs of the pure functions: for a struct type, every way of leaving   *)
(* each field at its zero value or giving it a value.                      *)
(***************************************************************************)
\* addresses of the caller-owned objects, by type (0 is the nil pointer)
AddrOf == [MarketFilter |-> 1, PriceProjection |-> 2, ProjectionParams |-> 3]

SomeTime == "2013-10-30T14:22:47Z"

\* A value other than the zero value for field f.
SampleOf(f) ==
    LET first(t) == Schemas[t][1]
        basic(g) ==
            CASE g.kind = "string" -> "x"
              [] g.kind = "time" -> SomeTime
              [] g.kind \in {"int", "uint", "float"} -> 5
              [] g.kind = "ptr" -> AddrOf[g.elem]
              [] g.kind = "slice" /\ g.elem = "string" -> <<"a", "b">>
              [] g.kind = "slice" /\ g.elem # "string" -> <<ZeroValue(g.elem)>>
    IN  IF f.kind = "struct"
        THEN [ZeroValue(f.elem) EXCEPT ![first(f.elem).go] = basic(first(f.elem))]
        ELSE basic(f)

Variants(type) ==
    LET fs == Schemas[type]
        zero == ZeroValue(type)
        fieldOf(g) == fs[CHOOSE i \in DOMAIN fs : fs[i].go = g]
    IN  {[g \in DOMAIN zero |-> IF g \in S THEN SampleOf(fieldOf(g)) ELSE zero[g]] :
            S \in SUBSET DOMAIN zero}

\* Heaps for the pure functions: objects with values set, and zero objects.
SampleHeap ==
    <<[ZeroValue("MarketFilter") EXCEPT !.TextQuery = "cup",
                                        !.EventTypeIds = <<"1">>],
      [PriceData |-> <<PriceDataEXBestOffers>>],
      [MarketProjection |-> <<MarketProjectionCompetition>>,
       PriceProjection |-> 2,
       OrderProjection |-> OrderProjectionAll,
       MatchProjection |-> MatchProjectionNoRollup]>>

ZeroHeap ==
    <<ZeroValue("MarketFilter"), ZeroValue("PriceProjection"),
      ZeroValue("ProjectionParams")>>

MarshalParamsInputs ==
    {[p |-> p, h |-> h] :
        p \in Variants("Params")
              \cup {[ZeroValue("Params") EXCEPT !.MaxResults = -1]},
        h \in {SampleHeap, ZeroHeap}}
    \cup {[p |-> [ZeroValue("Params") EXCEPT !.MarketFilter = 1],
           h |-> [SampleHeap EXCEPT ![1] = f]] : f \in Variants("MarketFilter")}

SetProjectionsInputs ==
    {[p |-> p, a |-> 3, h |-> [SampleHeap EXCEPT ![3] = pp]] :
        p \in Variants("Params"), pp \in Variants("ProjectionParams")}

ResultTypes == {"Runner", "Match", "StartingPrices", "ExchangePrices", "PriceSize"}

MarshalResultInputs ==
    UNION {{[type |-> t, val |-> v] : v \in Variants(t)} : t \in ResultTypes}

\* Response documents with the remote API's field names and value types.
Fixtures ==
    {[type |-> "CountryCodeResult",
      doc |-> JObj([countryCode |-> JStr(c), marketCount |-> JNum(n)])] :
        c \in {"GB", "IE"}, n \in {0, 12}}
    \cup {[type |-> "MarketTypeResult",
           doc |-> JObj([marketType |-> JStr(c), marketCount |-> JNum(n)])] :
        c \in {"MATCH_ODDS", "NEXT_GOAL"}, n \in {0, 12}}
    \cup {[type |-> "Match",
           doc |-> JObj([betId |-> JStr("31"), matchId |-> JStr("7"),
                         matchDate |-> JStr(SomeTime), side |-> JStr(sd),
                         price |-> JNum(pr), size |-> JNum(sz)])] :
        sd \in {SideBack, SideLay}, pr \in {2, 3}, sz \in {0, 10}}
    \cup {[type |-> "Runner",
           doc |-> JObj([selectionId |-> JNum(id), handicap |-> JNum(hc),
                         status |-> JStr(st), lastPriceTraded |-> JNum(5),
                         totalMatched |-> JNum(0)])] :
        id \in {1, 47972}, hc \in {0, 1},
        st \in {RunnerStatusActive, RunnerStatusWinner}}

EnumInputs ==
    UNION {{[enum |-> e, idx |-> i] : i \in DOMAIN EnumConsts[e]} : e \in EnumNames}

(***************************************************************************)
(* SpecCodec: the pure functions applied to the inputs above.              *)
(***************************************************************************)
\* json.Marshal of a request envelope
MarshalParamsStep ==
    /\ uFn = "MarshalParams" /\ uOut = <<>>
    /\ uOut' = <<MarshalParams(uIn.p, uIn.h)>>
    /\ UNCHANGED <<uFn, uIn>>
    /\ UNCHANGED sessVars

\* p.SetProjections(params)
SetProjectionsStep ==
    /\ uFn = "SetProjections" /\ uOut = <<>>
    /\ uOut' = <<SetProjections(uIn.p, uIn.a, uIn.h)>>
    /\ UNCHANGED <<uFn, uIn>>
    /\ UNCHANGED sessVars

\* json.Marshal of a result struct
MarshalResultStep ==
    /\ uFn = "MarshalResult" /\ uOut = <<>>
    /\ uOut' = <<JObj(MarshalStruct(uIn.type, uIn.val, <<>>))>>
    /\ UNCHANGED <<uFn, uIn>>
    /\ UNCHANGED sessVars

\* json.Unmarshal of a response document into a result struct
DecodeStep ==
    /\ uFn = "RoundTrip" /\ uOut = <<>>
    /\ uOut' = <<DecodeStruct(uIn.type, uIn.doc[2])>>
    /\ UNCHANGED <<uFn, uIn>>
    /\ UNCHANGED sessVars

\* json.Marshal of the struct just decoded
ReencodeStep ==
    /\ uFn = "RoundTrip" /\ Len(uOut) = 1
    /\ uOut' = uOut \o <<JObj(MarshalStruct(uIn.type, uOut[1].val, <<>>))>>
    /\ UNCHANGED <<uFn, uIn>>
    /\ UNCHANGED sessVars

\* json.Marshal of an enumerated constant
MarshalEnumStep ==
    /\ uFn = "MarshalEnum" /\ uOut = <<>>
    /\ uOut' = <<EncodeString(EnumConsts[uIn.enum][uIn.idx])>>
    /\ UNCHANGED <<uFn, uIn>>
    /\ UNCHANGED sessVars

CodecInit ==
    /\ uOut = <<>>
    /\ \/ uFn = "MarshalParams" /\ uIn \in MarshalParamsInputs
       \/ uFn = "SetProjections" /\ uIn \in SetProjectionsInputs
       \/ uFn = "MarshalResult" /\ uIn \in MarshalResultInputs
       \/ uFn = "RoundTrip" /\ uIn \in Fixtures
       \/ uFn = "MarshalEnum" /\ uIn \in EnumInputs

\* No pure function is applied while the session runs.
CodecIdle == uFn = "none" /\ uIn = <<>> /\ uOut = <<>>

(***************************************************************************)
(* The session: goroutines calling the public operations on one Session.   *)
(***************************************************************************)
Procs == {"g1", "g2"}

Locales == {"", "en"}

\* What callers pass: a filter pointer (nil or the caller's filter), a
\* list of market ids, a result limit, a projections pointer (nil or the
\* caller's ProjectionParams).
FilterArgs == {0, AddrOf.MarketFilter}
MarketIdsArgs == {<<>>, <<"1.101">>}
MaxResultsArgs == {0, 5}
ProjectionArgs == {0, AddrOf.ProjectionParams}

\* A call: the public operation called and the arguments it was given.
NoArgs ==
    [operation |-> "none", filter |-> 0, marketIds |-> <<>>, maxResults |-> 0,
     projections |-> 0]

\* doBettingRequest's `data` before doRequest has returned.
NoData == [kind |-> "none", n |-> 0]

\* `var results []T`: a nil slice.
NilResults == [nil |-> TRUE, items |-> <<>>]

NoError == "nil"
MarshalErrors == {"json: unsupported value"}
TransportErrors == {"net: timeout", "http: bad status"}
SyntaxError == "json: syntax error"
TypeError == "json: cannot unmarshal"

\* doRequest is not part of betting.go.  It is taken to return either
\* response bytes or an error and to leave the session configuration
\* alone.  Response bodies it may return: not JSON at all, the JSON null,
\* a list of n well-typed elements (none or one), a list of n elements
\* the last of which has a value of the wrong type.
Responses ==
    {[kind |-> "syntax", n |-> 0], [kind |-> "null", n |-> 0]}
    \cup {[kind |-> "ok", n |-> n] : n \in {0, 1}}
    \cup {[kind |-> "type", n |-> 1]}

\* json.Unmarshal(data, v) with v the address of a result slice holding r:
\* the error it returns and the slice afterwards.  Invalid JSON is
\* rejected before v is touched; a value of the wrong type is skipped, the
\* rest is decoded and the error is returned at the end.
Unmarshal(d, r) ==
    CASE d.kind = "syntax" -> [err |-> SyntaxError, v |-> r]
      [] d.kind = "null" -> [err |-> NoError, v |-> r]
      [] d.kind = "ok" ->
            [err |-> NoError,
             v |-> [nil |-> FALSE, items |-> [i \in 1..d.n |-> "decoded"]]]
      [] d.kind = "type" ->
            [err |-> TypeError,
             v |-> [nil |-> FALSE,
                    items |-> [i \in 1..d.n |->
                                 IF i = d.n THEN "partial" ELSE "decoded"]]]

\* A shared envelope instead of one per invocation.
NewParamsShared(g) == "g1"

\* new(Params): the address of a fresh envelope, one per invocation (a
\* goroutine runs one invocation at a time, so its name stands for it).
NewParams(g) == g

\* An error returned under a different value.
PropagateReplaced(e) == "betting: request failed"

\* `return err`, betting.go lines 441, 447 and 451: the error as it is.
Propagate(e) == e

\* Control flow of doBettingRequest with a failed transport call retried.
NextStageRetry(stage, ok) ==
    CASE stage = "locale" -> "encode"
      [] stage = "encode" -> IF ok THEN "transport" ELSE "return"
      [] stage = "transport" -> IF ok THEN "decode" ELSE "transport"
      [] stage = "decode" -> "return"

\* Control flow of doBettingRequest with the encoding error ignored.
NextStageNoStop(stage, ok) ==
    CASE stage = "locale" -> "encode"
      [] stage = "encode" -> "transport"
      [] stage = "transport" -> IF ok THEN "decode" ELSE "return"
      [] stage = "decode" -> "return"

\* Control flow of doBettingRequest, betting.go lines 435-455: the stage
\* that follows a stage, given whether it succeeded.
NextStage(stage, ok) ==
    CASE stage = "locale" -> "encode"
      [] stage = "encode" -> IF ok THEN "transport" ELSE "return"
      [] stage = "transport" -> IF ok THEN "decode" ELSE "return"
      [] stage = "decode" -> "return"

\* The envelope's own locale sent, the session's never injected.
InjectedLocaleNone(p, c) == p.Locale

\* params.Locale = s.config.Locale, betting.go line 437.
InjectedLocale(p, c) == c.Locale

Event(stage, e) == [stage |-> stage, err |-> e]

\* Entry of a public operation with the result variable kept from the
\* goroutine's previous invocation instead of declared afresh.
EnterKeepResults(g, method, a) ==
    /\ pc[g] \in {"idle", "done"}
    /\ ncalls < MaxCalls
    /\ ncalls' = ncalls + 1
    /\ op' = [op EXCEPT ![g] = method]
    /\ args' = [args EXCEPT ![g] = a]
    /\ err' = [err EXCEPT ![g] = NoError]
    /\ ret' = [ret EXCEPT ![g] = [results |-> NilResults, err |-> NoError]]
    /\ wire' = [wire EXCEPT ![g] = <<>>]
    /\ trace' = [trace EXCEPT ![g] = <<>>]
    /\ data' = [data EXCEPT ![g] = NoData]
    /\ body' = [body EXCEPT ![g] = JNull]
    /\ UNCHANGED <<config, results, codecVars>>

\* Entry of a public operation: `var results`, `params := new(Params)`;
\* the locals of the invocation start afresh.
Enter(g, method, a) ==
    /\ pc[g] \in {"idle", "done"}
    /\ ncalls < MaxCalls
    /\ ncalls' = ncalls + 1
    /\ op' = [op EXCEPT ![g] = method]
    /\ args' = [args EXCEPT ![g] = a]
    /\ results' = [results EXCEPT ![g] = NilResults]
    /\ err' = [err EXCEPT ![g] = NoError]
    /\ ret' = [ret EXCEPT ![g] = [results |-> NilResults, err |-> NoError]]
    /\ wire' = [wire EXCEPT ![g] = <<>>]
    /\ trace' = [trace EXCEPT ![g] = <<>>]
    /\ data' = [data EXCEPT ![g] = NoData]
    /\ body' = [body EXCEPT ![g] = JNull]
    /\ UNCHANGED <<config, codecVars>>

\* `params.MarketFilter = filter`, then the call of doBettingRequest.
FilterEnvelope(g, filter) ==
    /\ params' = [params EXCEPT ![NewParams(g)] =
                     [ZeroValue("Params") EXCEPT !.MarketFilter = filter]]
    /\ pc' = [pc EXCEPT ![g] = "locale"]
    /\ UNCHANGED heap

\* betting.go lines 360-364.
ListCompetitions(g, filter) ==
    /\ Enter(g, "listCompetitions",
             [NoArgs EXCEPT !.operation = "ListCompetitions", !.filter = filter])
    /\ FilterEnvelope(g, filter)

\* betting.go lines 370-374.
ListCountries(g, filter) ==
    /\ Enter(g, "listCountries",
             [NoArgs EXCEPT !.operation = "ListCountries", !.filter = filter])
    /\ FilterEnvelope(g, filter)

\* betting.go lines 380-384.
ListEvents(g, filter) ==
    /\ Enter(g, "listEvents",
             [NoArgs EXCEPT !.operation = "ListEvents", !.filter = filter])
    /\ FilterEnvelope(g, filter)

\* ListEventTypes sent under the method name of ListEvents.
ListEventTypesAsEvents(g, filter) ==
    /\ Enter(g, "listEvents",
             [NoArgs EXCEPT !.operation = "ListEventTypes", !.filter = filter])
    /\ FilterEnvelope(g, filter)

\* betting.go lines 390-394.
ListEventTypes(g, filter) ==
    /\ Enter(g, "listEventTypes",
             [NoArgs EXCEPT !.operation = "ListEventTypes", !.filter = filter])
    /\ FilterEnvelope(g, filter)

\* betting.go lines 427-431.
ListMarketTypes(g, filter) ==
    /\ Enter(g, "listMarketTypes",
             [NoArgs EXCEPT !.operation = "ListMarketTypes", !.filter = filter])
    /\ FilterEnvelope(g, filter)

\* `params.SetProjections(projectionsParam)` on the envelope built so far,
\* then the call of doBettingRequest; when SetProjections panics the
\* goroutine never reaches doBettingRequest.
ProjectionEnvelope(g, envelope, projectionsParam) ==
    LET r == SetProjections(envelope, projectionsParam, heap)
    IN  /\ params' = [params EXCEPT ![NewParams(g)] = r.p]
        /\ heap' = r.h
        /\ pc' = [pc EXCEPT ![g] = IF r.panic THEN "panicked" ELSE "locale"]

\* betting.go lines 401-406.
ListMarketBook(g, marketIds, projectionsParam) ==
    /\ Enter(g, "listMarketBook",
             [NoArgs EXCEPT !.operation = "ListMarketBook",
                            !.marketIds = marketIds,
                            !.projections = projectionsParam])
    /\ ProjectionEnvelope(g,
           [ZeroValue("Params") EXCEPT !.MarketIds = marketIds],
           projectionsParam)

\* ListMarketCatalogue with the assignment of MaxResults left out.
ListMarketCatalogueNoLimit(g, filter, maxResults, projectionsParam) ==
    /\ Enter(g, "listMarketCatalogue",
             [NoArgs EXCEPT !.operation = "ListMarketCatalogue",
                            !.filter = filter, !.maxResults = maxResults,
                            !.projections = projectionsParam])
    /\ ProjectionEnvelope(g,
           [ZeroValue("Params") EXCEPT !.MarketFilter = filter],
           projectionsParam)

\* betting.go lines 414-420.
ListMarketCatalogue(g, filter, maxResults, projectionsParam) ==
    /\ Enter(g, "listMarketCatalogue",
             [NoArgs EXCEPT !.operation = "ListMarketCatalogue",
                            !.filter = filter, !.maxResults = maxResults,
                            !.projections = projectionsParam])
    /\ ProjectionEnvelope(g,
           [ZeroValue("Params") EXCEPT !.MarketFilter = filter,
                                       !.MaxResults = maxResults],
           projectionsParam)

\* betting.go line 437.
InjectLocale(g) ==
    /\ pc[g] = "locale"
    /\ params' = [params EXCEPT ![NewParams(g)].Locale =
                     InjectedLocale(params[NewParams(g)], config)]
    /\ trace' = [trace EXCEPT ![g] = Append(@, Event("locale", NoError))]
    /\ pc' = [pc EXCEPT ![g] = NextStage("locale", TRUE)]
    /\ UNCHANGED <<config, heap, op, args, err, data, results, ret, wire,
                   body, ncalls, codecVars>>

\* betting.go lines 439-443.  json.Marshal's outcome is left open: the
\* bytes of the envelope, or an error.
MarshalStage(g) ==
    /\ pc[g] = "encode"
    /\ \/ /\ body' = [body EXCEPT ![g] = MarshalParams(params[NewParams(g)], heap)]
          /\ trace' = [trace EXCEPT ![g] = Append(@, Event("encode", NoError))]
          /\ pc' = [pc EXCEPT ![g] = NextStage("encode", TRUE)]
          /\ UNCHANGED err
       \/ \E e \in MarshalErrors :
            /\ err' = [err EXCEPT ![g] = Propagate(e)]
            /\ trace' = [trace EXCEPT ![g] = Append(@, Event("encode", e))]
            /\ pc' = [pc EXCEPT ![g] = NextStage("encode", FALSE)]
            /\ UNCHANGED body
    /\ UNCHANGED <<config, heap, op, args, params, data, results, ret, wire,
                   ncalls, codecVars>>

\* betting.go lines 445-448: doRequest(s, "betting", method+"/", body)
\* returns the response bytes or an error.
TransportStage(g) ==
    /\ pc[g] = "transport"
    /\ wire' = [wire EXCEPT ![g] =
                   Append(@, [endpoint |-> "betting", method |-> op[g] \o "/",
                              body |-> body[g]])]
    /\ \/ \E d \in Responses :
            /\ data' = [data EXCEPT ![g] = d]
            /\ trace' = [trace EXCEPT ![g] = Append(@, Event("transport", NoError))]
            /\ pc' = [pc EXCEPT ![g] = NextStage("transport", TRUE)]
            /\ UNCHANGED err
       \/ \E e \in TransportErrors :
            /\ err' = [err EXCEPT ![g] = Propagate(e)]
            /\ trace' = [trace EXCEPT ![g] = Append(@, Event("transport", e))]
            /\ pc' = [pc EXCEPT ![g] = NextStage("transport", FALSE)]
            /\ UNCHANGED data
    /\ UNCHANGED <<config, heap, op, args, params, results, ret, body, ncalls,
                   codecVars>>

\* betting.go lines 450-454.
UnmarshalStage(g) ==
    LET r == Unmarshal(data[g], results[g])
    IN  /\ pc[g] = "decode"
        /\ results' = [results EXCEPT ![g] = r.v]
        /\ err' = [err EXCEPT ![g] = Propagate(r.err)]
        /\ trace' = [trace EXCEPT ![g] = Append(@, Event("decode", r.err))]
        /\ pc' = [pc EXCEPT ![g] = NextStage("decode", r.err = NoError)]
        /\ UNCHANGED <<config, heap, op, args, params, data, ret, wire, body,
                       ncalls, codecVars>>

\* `return results, err` of the public operation, e.g. betting.go line 365.
Return(g) ==
    /\ pc[g] = "return"
    /\ ret' = [ret EXCEPT ![g] = [results |-> results[g], err |-> err[g]]]
    /\ pc' = [pc EXCEPT ![g] = "done"]
    /\ UNCHANGED <<config, heap, op, args, params, err, data, results, wire,
                   trace, body, ncalls, codecVars>>

SessionInit ==
    /\ config \in [Locale : Locales]
    /\ heap = SampleHeap
    /\ pc = [g \in Procs |-> "idle"]
    /\ op = [g \in Procs |-> "none"]
    /\ args = [g \in Procs |-> NoArgs]
    /\ params = [g \in Procs |-> ZeroValue("Params")]
    /\ err = [g \in Procs |-> NoError]
    /\ data = [g \in Procs |-> NoData]
    /\ results = [g \in Procs |-> NilResults]
    /\ ret = [g \in Procs |-> [results |-> NilResults, err |-> NoError]]
    /\ wire = [g \in Procs |-> <<>>]
    /\ trace = [g \in Procs |-> <<>>]
    /\ body = [g \in Procs |-> JNull]
    /\ ncalls = 0

\* The session makes no call while the pure functions are applied.
SessionIdle ==
    /\ config = [Locale |-> ""]
    /\ heap = ZeroHeap
    /\ pc = [g \in Procs |-> "idle"]
    /\ op = [g \in Procs |-> "none"]
    /\ args = [g \in Procs |-> NoArgs]
    /\ params = [g \in Procs |-> ZeroValue("Params")]
    /\ err = [g \in Procs |-> NoError]
    /\ data = [g \in Procs |-> NoData]
    /\ results = [g \in Procs |-> NilResults]
    /\ ret = [g \in Procs |-> [results |-> NilResults, err |-> NoError]]
    /\ wire = [g \in Procs |-> <<>>]
    /\ trace = [g \in Procs |-> <<>>]
    /\ body = [g \in Procs |-> JNull]
    /\ ncalls = 0

Next ==
    \E g \in Procs :
        \/ \E f \in FilterArgs : ListCompetitions(g, f)
        \/ \E f \in FilterArgs : ListCountries(g, f)
        \/ \E f \in FilterArgs : ListEvents(g, f)
        \/ \E f \in FilterArgs : ListEventTypes(g, f)
        \/ \E f \in FilterArgs : ListMarketTypes(g, f)
        \/ \E m \in MarketIdsArgs, a \in ProjectionArgs : ListMarketBook(g, m, a)
        \/ \E f \in FilterArgs, n \in MaxResultsArgs, a \in ProjectionArgs :
              ListMarketCatalogue(g, f, n, a)
        \/ InjectLocale(g)
        \/ MarshalStage(g)
        \/ TransportStage(g)
        \/ UnmarshalStage(g)
        \/ Return(g)

Init == SessionInit /\ CodecIdle

Spec == Init /\ [][Next]_vars

InitCodec == CodecInit /\ SessionIdle

NextCodec ==
    \/ MarshalParamsStep
    \/ SetProjectionsStep
    \/ MarshalResultStep
    \/ DecodeStep
    \/ ReencodeStep
    \/ MarshalEnumStep

SpecCodec == InitCodec /\ [][NextCodec]_vars

(***************************************************************************)
(* Properties of SpecCodec.                                                *)
(***************************************************************************)
Applied(fn) == uFn = fn /\ uOut # <<>>

IfSet(cond, key) == IF cond THEN {key} ELSE {}

\* C1: the top-level keys of a serialized request envelope are exactly the
\* wire names of the fields that are set (non-nil pointer, non-empty list,
\* non-zero integer, non-empty string), and the keys of the filter object
\* are exactly the wire names of the MarketFilter fields that are set.
C1_OmitOnEmpty ==
    Applied("MarshalParams") =>
        LET p == uIn.p
            doc == uOut[1]
        IN  /\ doc[1] = "obj"
            /\ Keys(doc) =
                  IfSet(p.MarketFilter # 0, "filter")
                  \cup IfSet(Len(p.MarketIds) > 0, "marketIds")
                  \cup IfSet(p.PriceProjection # 0, "priceProjection")
                  \cup IfSet(Len(p.MarketProjection) > 0, "marketProjection")
                  \cup IfSet(p.OrderProjection # "", "orderProjection")
                  \cup IfSet(p.MatchProjection # "", "matchProjection")
                  \cup IfSet(p.MaxResults # 0, "maxResults")
                  \cup IfSet(p.Locale # "", "locale")
            /\ p.MarketFilter # 0 =>
                  LET f == uIn.h[p.MarketFilter]
                  IN  Keys(doc[2].filter) =
                         IfSet(f.TextQuery # "", "textQuery")
                         \cup IfSet(Len(f.ExchangeIds) > 0, "exchangeIds")
                         \cup IfSet(Len(f.EventTypeIds) > 0, "eventTypeIds")
                         \cup IfSet(Len(f.EventIds) > 0, "eventIds")
                         \cup IfSet(Len(f.CompetitionIds) > 0, "competitionIds")
                         \cup IfSet(Len(f.MarketCountries) > 0, "marketCountries")
                         \cup IfSet(Len(f.MarketIds) > 0, "marketIds")
                         \cup IfSet(Len(f.MarketTypeCodes) > 0, "marketTypeCodes")

\* An envelope with a filter and a result limit and nothing else set is
\* serialized with those two keys, the filter with the two keys it sets.
C1_Witness ==
    /\ Applied("MarshalParams")
    /\ uIn.p.MarketFilter # 0 /\ uIn.p.MaxResults # 0 /\ uIn.p.Locale = ""
    /\ Keys(uOut[1]) = {"filter", "maxResults"}
    /\ Keys(uOut[1][2].filter) = {"textQuery", "eventTypeIds"}

\* C6: in the serialized form of a Runner, Match, StartingPrices,
\* ExchangePrices or PriceSize, no field tagged omit-on-empty that holds its
\* zero value has its key present.
C6_ResultOmitOnEmpty ==
    Applied("MarshalResult") =>
        LET fs == Schemas[uIn.type]
            zero == ZeroValue(uIn.type)
        IN  \A i \in DOMAIN fs :
                (fs[i].omitempty /\ uIn.val[fs[i].go] = zero[fs[i].go])
                    => fs[i].tag \notin Keys(uOut[1])

\* C7: a response document decodes without error and the decoded struct
\* serializes to the same document, key names and values.
C7_RoundTrip ==
    (uFn = "RoundTrip" /\ Len(uOut) = 2) =>
        /\ uOut[1].ok
        /\ Keys(uOut[2]) = Keys(uIn.doc)
        /\ \A k \in Keys(uIn.doc) : uOut[2][2][k] = uIn.doc[2][k]

\* C8: an enumerated constant serializes as the JSON string of its
\* declared literal (BACK, LAY and ALL spelled out), no other constant of
\* its enumeration serializes to the same string, and the two order-status
\* constants serialize as the order-projection constants of the same name.
C8_EnumLiterals ==
    Applied("MarshalEnum") =>
        LET e == uIn.enum
            i == uIn.idx
            out == uOut[1]
        IN  /\ out = <<"str", EnumConsts[e][i]>>
            /\ (e = "SideVal" /\ i = 1) => out = <<"str", "BACK">>
            /\ (e = "SideVal" /\ i = 2) => out = <<"str", "LAY">>
            /\ (e = "OrderProjVal" /\ i = 1) => out = <<"str", "ALL">>
            /\ \A j \in DOMAIN EnumConsts[e] :
                  j # i => out # EncodeString(EnumConsts[e][j])
            /\ (e = "OrderStatusVal" /\ i = 1) =>
                  out = EncodeString(EnumConsts.OrderProjVal[3])
                  /\ out = <<"str", "EXECUTION_COMPLETE">>
            /\ (e = "OrderStatusVal" /\ i = 2) =>
                  out = EncodeString(EnumConsts.OrderProjVal[2])
                  /\ out = <<"str", "EXECUTABLE">>

\* OrderProjectionExecutable has been serialized.
C8_Witness ==
    /\ Applied("MarshalEnum")
    /\ uIn = [enum |-> "OrderProjVal", idx |-> 2]
    /\ uOut[1] = <<"str", "EXECUTABLE">>

\* C10: SetProjections with a non-nil ProjectionParams makes the envelope's
\* four projection fields equal to the argument's, leaves MarketFilter,
\* MarketIds, MaxResults and Locale and the argument itself as they were,
\* and applying it again changes nothing.
C10_SetProjections ==
    Applied("SetProjections") =>
        LET p == uIn.p
            pp == uIn.h[uIn.a]
            r == uOut[1]
        IN  /\ ~r.panic
            /\ r.p.PriceProjection = pp.PriceProjection
            /\ r.p.MarketProjection = pp.MarketProjection
            /\ r.p.OrderProjection = pp.OrderProjection
            /\ r.p.MatchProjection = pp.MatchProjection
            /\ r.p.MarketFilter = p.MarketFilter
            /\ r.p.MarketIds = p.MarketIds
            /\ r.p.MaxResults = p.MaxResults
            /\ r.p.Locale = p.Locale
            /\ r.h = uIn.h
            /\ SetProjections(r.p, uIn.a, r.h) = r

\* An envelope whose projections were all set has had them overwritten,
\* the order projection and the market projection with empty ones.
C10_Witness ==
    /\ Applied("SetProjections")
    /\ uIn.p.OrderProjection # "" /\ Len(uIn.p.MarketProjection) > 0
    /\ uIn.p.MaxResults # 0 /\ uIn.p.MarketFilter # 0
    /\ uIn.h[uIn.a].OrderProjection = "" /\ uIn.h[uIn.a].MatchProjection # ""
    /\ uOut[1].p.OrderProjection = "" /\ uOut[1].p.MarketProjection = <<>>
    /\ uOut[1].p.MatchProjection # ""

(***************************************************************************)
(* Properties of Spec.                                                     *)
(***************************************************************************)
\* The error of the stage that failed in g's invocation, NoError when none.
Failed(g) == {i \in DOMAIN trace[g] : trace[g][i].err # NoError}

Stages(g) == [i \in DOMAIN trace[g] |-> trace[g][i].stage]

StageOrder == <<"locale", "encode", "transport", "decode">>

\* C2: every request sent carries the session's configured locale, and no
\* locale key when the configured locale is the empty string.
C2_LocaleInjected ==
    \A g \in Procs : \A i \in DOMAIN wire[g] :
        LET b == wire[g][i].body
        IN  IF config.Locale = ""
            THEN "locale" \notin Keys(b)
            ELSE "locale" \in Keys(b) /\ b[2].locale = <<"str", config.Locale>>

\* A request has gone out with the configured locale "en".
C2_Witness ==
    \E g \in Procs :
        /\ wire[g] # <<>>
        /\ config.Locale = "en"
        /\ wire[g][1].body[2].locale = <<"str", "en">>

\* C3: an operation that has returned returned the error value of the
\* stage that failed, as produced, and the nil error when no stage failed.
C3_ErrorsUnchanged ==
    \A g \in Procs :
        pc[g] = "done" =>
            IF Failed(g) = {} THEN ret[g].err = NoError
            ELSE \A i \in Failed(g) : ret[g].err = trace[g][i].err

\* An operation has returned the error of its failed transport call.
C3_Witness ==
    \E g \in Procs :
        /\ pc[g] = "done"
        /\ ret[g].err = "http: bad status"
        /\ trace[g][Len(trace[g])] = Event("transport", "http: bad status")

\* C4: an invocation never makes a second transport call, and one that
\* has returned made exactly one if encoding succeeded and none otherwise.
C4_SingleTransport ==
    \A g \in Procs :
        /\ Len(wire[g]) <= 1
        /\ pc[g] = "done" =>
              (Len(wire[g]) = 1 <=>
                  \E i \in DOMAIN trace[g] : trace[g][i] = Event("encode", NoError))

\* An invocation whose transport call failed has returned after that one
\* call.
C4_Witness ==
    \E g \in Procs :
        /\ pc[g] = "done"
        /\ Len(wire[g]) = 1
        /\ ret[g].err \in TransportErrors

\* The payload g's operation sends when it runs alone: the envelope built
\* from its arguments, with the session's locale.
AloneBody(g) ==
    LET a == args[g]
        base == [ZeroValue("Params") EXCEPT !.MarketFilter = a.filter,
                                            !.MarketIds = a.marketIds,
                                            !.MaxResults = a.maxResults]
        set == IF a.projections = 0 THEN base
               ELSE [base EXCEPT
                       !.PriceProjection = heap[a.projections].PriceProjection,
                       !.MarketProjection = heap[a.projections].MarketProjection,
                       !.OrderProjection = heap[a.projections].OrderProjection,
                       !.MatchProjection = heap[a.projections].MatchProjection]
    IN  MarshalParams([set EXCEPT !.Locale = config.Locale], heap)

SentAlone ==
    \A g \in Procs : \A i \in DOMAIN wire[g] : wire[g][i].body = AloneBody(g)

\* C5: under every interleaving each operation sends the payload it would
\* send alone, and no step writes the session configuration, a caller's
\* MarketFilter or ProjectionParams, or the arguments (the marketIds list
\* among them) of an invocation in progress.
C5_Isolation ==
    /\ []SentAlone
    /\ [][/\ config' = config
          /\ heap' = heap
          /\ \A g \in Procs :
                pc[g] \notin {"idle", "done", "panicked"} => args'[g] = args[g]]_vars

\* Two invocations overlap, both have sent, and their payloads differ.
C5_Witness ==
    /\ pc["g1"] = "decode" /\ pc["g2"] = "decode"
    /\ wire["g1"][1].body # wire["g2"][1].body
    /\ op["g1"] = "listMarketBook" /\ op["g2"] = "listMarketCatalogue"

\* C9: the stages of an invocation are a prefix of locale injection,
\* encoding, transport, decoding; only the last stage reached may have
\* failed; nothing is sent after an encoding failure; and the result
\* variable is written only by an invocation that reached decoding.
C9_StageOrder ==
    \A g \in Procs :
        /\ Len(trace[g]) <= Len(StageOrder)
        /\ Stages(g) = SubSeq(StageOrder, 1, Len(trace[g]))
        /\ \A i \in Failed(g) : i = Len(trace[g])
        /\ \A i \in Failed(g) :
              trace[g][i].stage = "encode" => wire[g] = <<>>
        /\ \A i \in Failed(g) :
              trace[g][i].stage \in {"encode", "transport"} =>
                  results[g] = NilResults
        /\ results[g] # NilResults => Len(trace[g]) = Len(StageOrder)

\* An invocation went through all four stages and decoding wrote the
\* result variable.
C9_Witness ==
    \E g \in Procs :
        /\ pc[g] = "done"
        /\ Stages(g) = StageOrder
        /\ ~results[g].nil
        /\ ret[g].err = NoError

FilterOperations ==
    {"ListCompetitions", "ListCountries", "ListEvents", "ListEventTypes",
     "ListMarketTypes"}

ProjectionOperations == {"ListMarketBook", "ListMarketCatalogue"}

\* The market ids a payload carries at its top level, as a list of strings.
PayloadMarketIds(b) ==
    [i \in DOMAIN b[2].marketIds[2] |-> b[2].marketIds[2][i][2]]

\* What the payloads sent may hold, per operation.  idsElided tells whether
\* an empty marketIds list of ListMarketBook's caller is expected to leave
\* the key out (TRUE) or to be sent like any other list (FALSE).
PayloadKeys(idsElided) ==
    \A g \in Procs : \A i \in DOMAIN wire[g] :
        LET b == wire[g][i].body
            k == Keys(b)
            a == args[g]
        IN  /\ a.operation \in FilterOperations => k \subseteq {"filter", "locale"}
            /\ a.operation = "ListMarketBook" =>
                  /\ "filter" \notin k
                  /\ "maxResults" \notin k
                  /\ IF idsElided /\ a.marketIds = <<>>
                     THEN "marketIds" \notin k
                     ELSE /\ "marketIds" \in k
                          /\ PayloadMarketIds(b) = a.marketIds
            /\ a.operation = "ListMarketCatalogue" =>
                  /\ "marketIds" \notin k
                  /\ IF a.maxResults # 0
                     THEN "maxResults" \in k /\ b[2].maxResults = JNum(a.maxResults)
                     ELSE "maxResults" \notin k

\* C11 as stated: the payload of a filter-only operation has no top-level
\* key besides filter and locale; ListMarketBook's has neither filter nor
\* maxResults and its marketIds is the caller's list; ListMarketCatalogue's
\* has no top-level marketIds, and its maxResults is the caller's value
\* when that is non-zero and is absent when it is zero.
C11_PayloadKeys == PayloadKeys(FALSE)

\* C11 amended: as C11_PayloadKeys, except that ListMarketBook's marketIds
\* is the caller's list when that list is not empty and is absent when
\* the list is empty (or nil).
C11_PayloadKeysAmended == PayloadKeys(TRUE)

\* ListMarketBook has sent a non-empty list of market ids while
\* ListMarketCatalogue has sent a filter and the limit 5.
C11_Witness ==
    \E g, h \in Procs :
        /\ args[g].operation = "ListMarketBook"
        /\ wire[g] # <<>>
        /\ "marketIds" \in Keys(wire[g][1].body)
        /\ PayloadMarketIds(wire[g][1].body) = <<"1.101">>
        /\ args[h].operation = "ListMarketCatalogue"
        /\ wire[h] # <<>>
        /\ {"filter", "maxResults"} \subseteq Keys(wire[h][1].body)
        /\ wire[h][1].body[2].maxResults = JNum(5)

\* The remote method each public operation is to be dispatched under.
RemoteMethod ==
    [ListCompetitions |-> "listCompetitions/",
     ListCountries |-> "listCountries/",
     ListEvents |-> "listEvents/",
     ListEventTypes |-> "listEventTypes/",
     ListMarketBook |-> "listMarketBook/",
     ListMarketCatalogue |-> "listMarketCatalogue/",
     ListMarketTypes |-> "listMarketTypes/"]

\* C12: every request goes to the "betting" endpoint under the remote
\* method name of the operation that was called, followed by "/", and two
\* requests of different operations never go out under the same method
\* name.
C12_Dispatch ==
    /\ \A g \in Procs : \A i \in DOMAIN wire[g] :
          /\ wire[g][i].endpoint = "betting"
          /\ wire[g][i].method = RemoteMethod[args[g].operation]
    /\ \A g, h \in Procs : \A i \in DOMAIN wire[g], j \in DOMAIN wire[h] :
          args[g].operation # args[h].operation =>
              wire[g][i].method # wire[h][j].method

\* ListEvents and ListEventTypes have both sent their request, under
\* listEvents/ and listEventTypes/.
C12_Witness ==
    \E g, h \in Procs :
        /\ args[g].operation = "ListEvents"
        /\ wire[g] # <<>>
        /\ wire[g][1].method = "listEvents/"
        /\ args[h].operation = "ListEventTypes"
        /\ wire[h] # <<>>
        /\ wire[h][1].method = "listEventTypes/"

\* C13: an operation that has returned the error of encoding or of the
\* transport call has returned the nil result list with it, whatever an
\* earlier invocation of the same goroutine decoded.
C13_NilResultsOnError ==
    \A g \in Procs :
        (/\ pc[g] = "done"
         /\ \E i \in Failed(g) : trace[g][i].stage \in {"encode", "transport"})
            => /\ ret[g].err # NoError
               /\ ret[g].results = NilResults

\* A goroutine whose invocation was the second of the two (the other
\* goroutine made none) has returned a transport error with the nil
\* result list.
C13_Witness ==
    \E g \in Procs :
        /\ pc[g] = "done"
        /\ ncalls = 2
        /\ \A h \in Procs \ {g} : pc[h] = "idle"
        /\ ret[g].err \in TransportErrors
        /\ ret[g].results = NilResults

\* C14: ListMarketBook and ListMarketCatalogue called with the nil
\* ProjectionParams panic: the invocation returns no value, injects no
\* locale, serializes nothing and makes no transport call; no other call
\* panics, and a filter-only operation called with the nil MarketFilter
\* goes on and sends its request without the filter key.
C14_NilArguments ==
    \A g \in Procs :
        /\ (args[g].operation \in ProjectionOperations /\ args[g].projections = 0)
              => /\ pc[g] = "panicked"
                 /\ trace[g] = <<>>
                 /\ params[NewParams(g)].Locale = ""
                 /\ body[g] = JNull
                 /\ wire[g] = <<>>
                 /\ ret[g] = [results |-> NilResults, err |-> NoError]
        /\ pc[g] = "panicked"
              => /\ args[g].operation \in ProjectionOperations
                 /\ args[g].projections = 0
        /\ (args[g].operation \in FilterOperations /\ args[g].filter = 0)
              => /\ pc[g] \in {"locale", "encode", "transport", "decode",
                                "return", "done"}
                 /\ \A i \in DOMAIN wire[g] : "filter" \notin Keys(wire[g][i].body)

\* With the locale "en" configured, one goroutine has panicked in
\* ListMarketCatalogue and the other has sent ListCompetitions' request
\* for the nil filter and returned.
C14_Witness ==
    \E g, h \in Procs :
        /\ config.Locale = "en"
        /\ pc[g] = "panicked"
        /\ args[g].operation = "ListMarketCatalogue"
        /\ args[h].operation = "ListCompetitions"
        /\ args[h].filter = 0
        /\ pc[h] = "done"
        /\ Len(wire[h]) = 1
        /\ Keys(wire[h][1].body) = {"locale"}

====
